---- MODULE Spec2Model ----
(***************************************************************************)
(* mutual-tls: a single-level certificate authority (src/index.js).        *)
(*                                                                         *)
(* Buffers are heap cells (a reference and the bytes it holds), so that    *)
(* aliasing between a CA and its callers is visible.  PEM text is a record *)
(* of what it encodes plus the textual form it is written in: parsing      *)
(* drops the form and serialising always writes forge's own form.  Times   *)
(* are in seconds (the code's milliseconds divided by 1000).               *)
(***************************************************************************)
EXTENDS Integers, Sequences, FiniteSets, TLC

VARIABLES
  cas,      \* the MutualTLS instances: _keyPair and _pem (buffer references), _cert
  heap,     \* the bytes of every buffer allocated, by reference
  nextKey,  \* how many key pairs forge has generated, plus one
  now,      \* Date.now(), in seconds
  last      \* the last call: its arguments, what it returned or threw

vars == <<cas, heap, nextKey, now, last>>

----------------------------------------------------------------------------
(* Bounds of the exploration *)

MaxCA == 2          \* CA instances constructed in one run
MaxKey == 3         \* RSA key pairs generated in one run
MaxNow == 1         \* clock readings 0..MaxNow
MaxSerial == 1      \* distinct values the random serial source yields
MaxNames == 2       \* names in one authorize call
MaxNameLen == 2     \* characters in one name
MaxWrites == 1      \* buffers a caller has overwritten in one run

----------------------------------------------------------------------------
(* Program constants *)

RSA_KEY_SIZE == 2048
ROOT_COMMON_NAME == <<"G", "e", "n", "e", "r", "i", "c", " ", "C", "A">>
DAY == 86400
ROOT_NOT_AFTER == 365 * 86400
CERT_NOT_AFTER == 90 * 86400

----------------------------------------------------------------------------
(* JavaScript values *)

Undefined == [t |-> "undefined"]
Null == [t |-> "null"]
Num(n) == [t |-> "number", v |-> n]
Str(s) == [t |-> "string", v |-> s]
Arr(a) == [t |-> "array", v |-> a]
Buf(r) == [t |-> "buffer", ref |-> r]

\* ToBoolean, as `!x` and `x || y` apply it
Truthy(x) ==
  CASE x.t = "undefined" -> FALSE
    [] x.t = "null" -> FALSE
    [] x.t = "number" -> x.v # 0
    [] x.t = "string" -> Len(x.v) # 0
    [] OTHER -> TRUE

\* x || y
OrElse(x, y) == IF Truthy(x) THEN x ELSE y

\* name[0]
First(name) == IF Len(name.v) = 0 THEN Undefined ELSE Str(name.v[1])

----------------------------------------------------------------------------
(* PEM text and forge's conversions *)

Garbage == [kind |-> "garbage"]
PrivatePem(k, form) == [kind |-> "RSA PRIVATE KEY", key |-> k, form |-> form]
PublicPem(k, form) == [kind |-> "PUBLIC KEY", key |-> k, form |-> form]
CertPem(c, form) == [kind |-> "CERTIFICATE", cert |-> c, form |-> form]

privateKeyToPem(k) == PrivatePem(k, "forge")
publicKeyToPem(k) == PublicPem(k, "forge")
certificateToPem(c) == CertPem(c, "forge")

CanParsePrivateKey(bytes) == bytes.kind = "RSA PRIVATE KEY"
privateKeyFromPem(bytes) == bytes.key
publicKeyFromPem(bytes) == bytes.key
CanParseCertificate(bytes) == bytes.kind = "CERTIFICATE"
certificateFromPem(bytes) == bytes.cert

\* forge.pki.rsa.setPublicKey(pk.n, pk.e): the public half of the same pair
privateToPublicKey(bytes) == publicKeyToPem(privateKeyFromPem(bytes))

\* forge.pki.rsa.generateKeyPair(bits): the id-th pair the generator yields
generateKeyPair(id, bits) ==
  LET k == [id |-> id, bits |-> bits]
  IN [publicKey |-> publicKeyToPem(k), privateKey |-> privateKeyToPem(k)]

\* crypto.randomUUID().replace(/-/g, ''): any value of the random source
generateSerialNumber == 1..MaxSerial

----------------------------------------------------------------------------
(* Attributes and extensions *)

defaultAttributes(commonName) ==
  <<[name |-> "commonName", value |-> commonName]>>

defaultExtensionsRoot ==
  << [name |-> "basicConstraints", cA |-> TRUE],
     [name |-> "keyUsage", keyCertSign |-> TRUE, digitalSignature |-> TRUE,
      nonRepudiation |-> TRUE, keyEncipherment |-> TRUE,
      dataEncipherment |-> TRUE],
     [name |-> "extKeyUsage", serverAuth |-> TRUE, clientAuth |-> TRUE,
      codeSigning |-> TRUE, emailProtection |-> TRUE, timeStamping |-> TRUE],
     [name |-> "nsCertType", client |-> TRUE, server |-> TRUE, email |-> TRUE,
      objsign |-> TRUE, sslCA |-> TRUE, emailCA |-> TRUE, objCA |-> TRUE],
     [name |-> "subjectKeyIdentifier"] >>

ALTNAME_TYPE == [DNS |-> 2, IP |-> 7]

\* the character class [\d.]
InClass(c) == c \in {"0", "1", "2", "3", "4", "5", "6", "7", "8", "9", "."}

\* /^[\d.]+$/ run over the characters of a name
RECURSIVE MatchRest(_)
MatchRest(s) ==
  IF s = <<>> THEN TRUE
  ELSE IF InClass(Head(s)) THEN MatchRest(Tail(s)) ELSE FALSE

\* the expression without its anchors, /[\d.]+/
MatchIPUnanchored(s) == \E k \in 1..Len(s) : InClass(s[k])

MatchIP(s) == IF s = <<>> THEN FALSE ELSE InClass(Head(s)) /\ MatchRest(Tail(s))

getAltName(name) ==
  IF MatchIP(name)
  THEN [type |-> ALTNAME_TYPE.IP, ip |-> name]
  ELSE [type |-> ALTNAME_TYPE.DNS, value |-> name]

defaultExtensionsCert(altNames) ==
  << [name |-> "basicConstraints", cA |-> FALSE],
     [name |-> "keyUsage", keyCertSign |-> FALSE, digitalSignature |-> TRUE,
      nonRepudiation |-> FALSE, keyEncipherment |-> TRUE,
      dataEncipherment |-> TRUE],
     [name |-> "extKeyUsage", serverAuth |-> TRUE, clientAuth |-> TRUE,
      codeSigning |-> FALSE, emailProtection |-> FALSE,
      timeStamping |-> FALSE],
     [name |-> "nsCertType", client |-> TRUE, server |-> TRUE, email |-> FALSE,
      objsign |-> FALSE, sslCA |-> FALSE, emailCA |-> FALSE, objCA |-> FALSE],
     [name |-> "subjectKeyIdentifier"],
     [name |-> "subjectAltName",
      altNames |-> [i \in 1..Len(altNames) |-> getAltName(altNames[i])]] >>

----------------------------------------------------------------------------
(* Certificates *)

\* forge.pki.createCertificate() with the fields the callers set, signed by
\* cert.sign(signingKey, sha256)
Certificate(subject, issuer, serialNumber, notBefore, notAfter, publicKey, extensions, signingKey) ==
  [subject |-> subject, issuer |-> issuer, serialNumber |-> serialNumber,
   validity |-> [notBefore |-> notBefore, notAfter |-> notAfter],
   publicKey |-> publicKey, extensions |-> extensions,
   signedBy |-> signingKey]

\* the CA instances are cas[1], cas[2], ...; a CA holds references to its
\* buffers and its parsed certificate
Instances == 1..Len(cas)

\* get key () / get ca (): the reference the getter hands out
key(i) == cas[i].keyPair.privateKey
ca(i) == cas[i].pem

\* the bytes behind a buffer argument
Bytes(x) == heap[x.ref]

\* what one call left behind for its caller
Call(op, this, args, error, generated, result, t1, t2) ==
  [op |-> op, this |-> this, args |-> args, error |-> error,
   generated |-> generated, result |-> result, t1 |-> t1, t2 |-> t2]

NoResult == [none |-> TRUE]

----------------------------------------------------------------------------
(* new MutualTLS(opts): _createCA *)

createCA(opts, id, serial, t1, t2) ==
  LET keyPair == generateKeyPair(id, OrElse(opts.bits, Num(RSA_KEY_SIZE)).v)
      attributes == defaultAttributes(OrElse(opts.name, Str(ROOT_COMMON_NAME)))
      extensions == defaultExtensionsRoot
      cert == Certificate(attributes, attributes, serial,
                          t1 - DAY,
                          t2 + OrElse(opts.expiry, Num(ROOT_NOT_AFTER)).v,
                          publicKeyFromPem(keyPair.publicKey), extensions,
                          privateKeyFromPem(keyPair.privateKey))
  IN [keyPair |-> keyPair, cert |-> cert, pem |-> certificateToPem(cert)]

\* the instance whose three buffers are allocated at the end of the heap
Stored(cert) ==
  [keyPair |-> [publicKey |-> Len(heap) + 1, privateKey |-> Len(heap) + 2],
   cert |-> cert, pem |-> Len(heap) + 3]

\* `skew` is how far the clock moves between the two Date.now() reads
Create(opts, skew) ==
  /\ Len(cas) < MaxCA
  /\ nextKey <= MaxKey
  /\ now + skew <= MaxNow
  /\ \E serial \in generateSerialNumber :
       LET made == createCA(opts, nextKey, serial, now, now + skew)
       IN /\ heap' = heap \o <<made.keyPair.publicKey, made.keyPair.privateKey,
                               made.pem>>
          /\ cas' = Append(cas, Stored(made.cert))
          /\ last' = Call("create", Len(cas) + 1, opts, "", TRUE, NoResult,
                          now, now + skew)
  /\ nextKey' = nextKey + 1
  /\ now' = now + skew

----------------------------------------------------------------------------
(* MutualTLS.from(root): the constructor with a root, _loadCA, toKeyPair *)

Root(caArg, keyArg, keyPairArg, publicKeyArg) ==
  [t |-> "object", ca |-> caArg, key |-> keyArg, keyPair |-> keyPairArg,
   publicKey |-> publicKeyArg]

KeyPairArg(publicKey, privateKey) ==
  [t |-> "object", publicKey |-> publicKey, privateKey |-> privateKey]

\* the bytes toKeyPair copies, or the parse error it dies of
toKeyPair(root) ==
  IF Truthy(root.keyPair)
  THEN [error |-> "", publicKey |-> Bytes(root.keyPair.publicKey),
        privateKey |-> Bytes(root.keyPair.privateKey)]
  ELSE IF Truthy(root.key)
  THEN IF Truthy(root.publicKey)
       THEN [error |-> "", publicKey |-> Bytes(root.publicKey),
             privateKey |-> Bytes(root.key)]
       ELSE IF CanParsePrivateKey(Bytes(root.key))
       THEN [error |-> "", publicKey |-> privateToPublicKey(Bytes(root.key)),
             privateKey |-> Bytes(root.key)]
       ELSE [error |-> "Invalid PEM formatted message."]
  ELSE [error |-> "Could not get key pair"]

\* _loadCA with its two checks the other way round
loadCAErrorKeyFirst(root) ==
  IF ~Truthy(root) THEN "TypeError: Cannot read properties of null"
  ELSE IF ~Truthy(root.keyPair) /\ ~Truthy(root.key)
  THEN "Missing key pair or private key"
  ELSE IF ~Truthy(root.ca) THEN "Missing certificate"
  ELSE IF toKeyPair(root).error # "" THEN toKeyPair(root).error
  ELSE IF ~CanParseCertificate(Bytes(root.ca))
  THEN "Invalid PEM formatted message."
  ELSE ""

\* the error the constructor throws for `root`, "" when it throws none
loadCAError(root) ==
  IF ~Truthy(root) THEN "TypeError: Cannot read properties of null"
  ELSE IF ~Truthy(root.ca) THEN "Missing certificate"
  ELSE IF ~Truthy(root.keyPair) /\ ~Truthy(root.key)
  THEN "Missing key pair or private key"
  ELSE IF toKeyPair(root).error # "" THEN toKeyPair(root).error
  ELSE IF ~CanParseCertificate(Bytes(root.ca))
  THEN "Invalid PEM formatted message."
  ELSE ""

From(root) ==
  /\ Len(cas) < MaxCA
  /\ LET error == loadCAError(root)
     IN IF error # ""
        THEN /\ last' = Call("from", 0, root, error, FALSE, NoResult, now, now)
             /\ UNCHANGED <<cas, heap>>
        ELSE LET keyPair == toKeyPair(root)
                 cert == certificateFromPem(Bytes(root.ca))
             IN /\ heap' = heap \o <<keyPair.publicKey, keyPair.privateKey,
                                     certificateToPem(cert)>>
                /\ cas' = Append(cas, Stored(cert))
                /\ last' = Call("from", Len(cas) + 1, root, "", FALSE,
                                NoResult, now, now)
  /\ UNCHANGED <<nextKey, now>>

----------------------------------------------------------------------------
(* authorize(name, opts) *)

\* a signing key kept once for the module instead of per instance
signingKeyShared(this) ==
  IF CanParsePrivateKey(heap[cas[1].keyPair.privateKey])
  THEN privateKeyFromPem(heap[cas[1].keyPair.privateKey])
  ELSE privateKeyFromPem(heap[this.keyPair.privateKey])

\* the key cert.sign is given: this._keyPair.privateKey, parsed at the call
signingKey(this) == privateKeyFromPem(heap[this.keyPair.privateKey])

authorize(this, name, opts, id, serial, t1, t2) ==
  LET names == IF name.t = "string" THEN Arr(<<name.v>>) ELSE name
      keyPair == generateKeyPair(id, OrElse(opts.bits, Num(RSA_KEY_SIZE)).v)
      attributes == defaultAttributes(First(names))
      issuer == this.cert.issuer
      extensions == defaultExtensionsCert(names.v)
      cert == Certificate(attributes, issuer, serial,
                          t1 - DAY,
                          t2 + OrElse(opts.expiry, Num(CERT_NOT_AFTER)).v,
                          publicKeyFromPem(keyPair.publicKey), extensions,
                          signingKey(this))
  IN [key |-> keyPair.privateKey, cert |-> certificateToPem(cert)]

\* whether authorize stops at its first line
NameMissing(name) == ~Truthy(name)

\* A name list without a first element reaches forge with an undefined
\* commonName; whether forge then throws or encodes it is not decided by
\* this code, so both outcomes are kept.
Authorize(i, name, opts, skew) ==
  /\ i \in Instances
  /\ LET args == [name |-> name, opts |-> opts]
     IN IF NameMissing(name)
        THEN /\ last' = Call("authorize", i, args, "Common name is required",
                             FALSE, NoResult, now, now)
             /\ UNCHANGED <<nextKey, now>>
        ELSE /\ nextKey <= MaxKey
             /\ now + skew <= MaxNow
             /\ nextKey' = nextKey + 1
             /\ now' = now + skew
             /\ \E serial \in generateSerialNumber :
                  \E forgeThrows \in
                       IF name.t = "array" /\ Len(name.v) = 0
                       THEN BOOLEAN ELSE {FALSE} :
                    IF forgeThrows
                    THEN last' = Call("authorize", i, args, "forge error",
                                      TRUE, NoResult, now, now + skew)
                    ELSE IF ~CanParsePrivateKey(heap[key(i)])
                    THEN last' = Call("authorize", i, args,
                                      "Invalid PEM formatted message.",
                                      TRUE, NoResult, now, now + skew)
                    ELSE last' = Call("authorize", i, args, "", TRUE,
                                      authorize(cas[i], name, opts, nextKey,
                                                serial, now, now + skew),
                                      now, now + skew)
  /\ UNCHANGED <<cas, heap>>

----------------------------------------------------------------------------
(* The static utilities *)

KeyPair(bits) ==
  /\ nextKey <= MaxKey
  /\ last' = Call("keyPair", 0, bits, "", TRUE,
                  generateKeyPair(nextKey, OrElse(bits, Num(RSA_KEY_SIZE)).v),
                  now, now)
  /\ nextKey' = nextKey + 1
  /\ UNCHANGED <<cas, heap, now>>

SerialNumber ==
  /\ \E serial \in generateSerialNumber :
       last' = Call("serialNumber", 0, Undefined, "", FALSE,
                    [serialNumber |-> serial], now, now)
  /\ UNCHANGED <<cas, heap, nextKey, now>>

ToPublicKey(privateKey) ==
  /\ IF CanParsePrivateKey(Bytes(privateKey))
     THEN last' = Call("toPublicKey", 0, privateKey, "", FALSE,
                       privateToPublicKey(Bytes(privateKey)), now, now)
     ELSE last' = Call("toPublicKey", 0, privateKey,
                       "Invalid PEM formatted message.", FALSE, NoResult,
                       now, now)
  /\ UNCHANGED <<cas, heap, nextKey, now>>

----------------------------------------------------------------------------
(* The environment: the caller's own buffers, its writes, the clock *)

ForeignKey == [id |-> 0, bits |-> RSA_KEY_SIZE]
OtherAuthorityKey == [id |-> -1, bits |-> RSA_KEY_SIZE]

\* a CA certificate another authority issued: its subject is not its issuer
ForeignCert ==
  Certificate(defaultAttributes(Str(<<"s">>)), defaultAttributes(Str(<<"i">>)),
              0, 0 - DAY, ROOT_NOT_AFTER, ForeignKey, defaultExtensionsRoot,
              OtherAuthorityKey)

\* PEM files the caller read from elsewhere, not written by forge
CallerHeap ==
  << PrivatePem(ForeignKey, "openssl"), PublicPem(ForeignKey, "openssl"),
     CertPem(ForeignCert, "openssl") >>
ForeignPrivate == Len(CallerHeap) - 2
ForeignPublic == Len(CallerHeap) - 1
ForeignCa == Len(CallerHeap)

\* an in-place edit of a buffer's bytes: noise, or a change of white space
\* that leaves the PEM text readable
Edited(bytes, edit) ==
  IF edit = "whitespace" /\ bytes # Garbage
  THEN [bytes EXCEPT !.form = "edited"]
  ELSE Garbage

\* the buffers whose bytes are no longer the ones their owner stored
Overwritten ==
  {r \in 1..Len(heap) : heap[r] = Garbage \/ heap[r].form = "edited"}

\* the caller writes into a buffer a getter returned
CallerWrite(ref, edit) ==
  /\ Cardinality(Overwritten \ {ref}) < MaxWrites
  /\ heap[ref] # Edited(heap[ref], edit)
  /\ heap' = [heap EXCEPT ![ref] = Edited(heap[ref], edit)]
  /\ last' = Call("write", 0, Buf(ref), "", FALSE, NoResult, now, now)
  /\ UNCHANGED <<cas, nextKey, now>>

Tick ==
  /\ now < MaxNow
  /\ now' = now + 1
  /\ UNCHANGED <<cas, heap, nextKey, last>>

----------------------------------------------------------------------------
(* Inputs *)

NoOpts == [name |-> Undefined, bits |-> Undefined, expiry |-> Undefined]

ExpiryOpts == {Undefined, Num(0), Num(3600), Num(0 - DAY), Num(0 - 2 * DAY)}
BitsOpts == {Undefined, Num(0), Num(1024)}
NameOpts == {Undefined, Str(<<>>), Str(<<"r">>)}

Chars == {"1", ".", "a"}
NameStrings == UNION {[1..n -> Chars] : n \in 0..MaxNameLen}
NameArrays == UNION {[1..n -> NameStrings] : n \in 0..MaxNames}
NameInputs ==
  {Undefined, Null} \cup {Str(s) : s \in NameStrings}
    \cup {Arr(a) : a \in NameArrays}

CaArgs == {Undefined, Buf(ForeignCa)} \cup {Buf(ca(i)) : i \in Instances}
KeyArgs ==
  {Undefined, Buf(ForeignPrivate)} \cup {Buf(key(i)) : i \in Instances}

\* from(null); {ca?, key?}; {ca?, keyPair}; {ca?, key, publicKey}
Roots ==
  {Null}
    \cup {Root(c, k, Undefined, Undefined) : c \in CaArgs, k \in KeyArgs}
    \cup {Root(c, Undefined,
               KeyPairArg(Buf(ForeignPublic), Buf(ForeignPrivate)),
               Undefined) : c \in CaArgs}
    \cup {Root(c, Buf(ForeignPrivate), Undefined, Buf(ForeignPublic)) :
            c \in CaArgs}

Init ==
  /\ cas = <<>>
  /\ heap = CallerHeap
  /\ nextKey = 1
  /\ now = 0
  /\ last = Call("none", 0, Undefined, "", FALSE, NoResult, 0, 0)

----------------------------------------------------------------------------
(* Spec: the life of CA instances -- creation, restoration, the getters'   *)
(* buffers in the caller's hands, issuance                                 *)

Next ==
  \/ Create(NoOpts, 0)
  \/ \E root \in Roots : From(root)
  \/ \E i \in Instances : Authorize(i, Str(<<"a">>), NoOpts, 0)
  \/ \E i \in Instances, edit \in {"whitespace", "garbage"} :
       CallerWrite(key(i), edit)
  \/ \E i \in Instances, edit \in {"whitespace", "garbage"} :
       CallerWrite(ca(i), edit)

Spec == Init /\ [][Next]_vars

(* SpecNames: one CA, every shape of the name argument *)

\* authorize leaves the CA as it found it, so the call after a creation
\* stands for every call
NextNames ==
  \/ /\ Len(cas) = 0
     /\ Create(NoOpts, 0)
  \/ /\ last.op = "create"
     /\ \E i \in Instances, name \in NameInputs :
          Authorize(i, name, NoOpts, 0)

SpecNames == Init /\ [][NextNames]_vars

(* SpecValidity: one CA, the clock, every option, the static utilities *)

NextValidity ==
  \/ \E name \in NameOpts, bits \in BitsOpts, expiry \in ExpiryOpts,
        skew \in {0, 1} :
       /\ Len(cas) = 0
       /\ Create([name |-> name, bits |-> bits, expiry |-> expiry], skew)
  \/ \E i \in Instances, bits \in BitsOpts, expiry \in ExpiryOpts,
        skew \in {0, 1} :
       Authorize(i, Str(<<"a">>), [bits |-> bits, expiry |-> expiry], skew)
  \/ Tick
  \/ \E bits \in BitsOpts : KeyPair(bits)
  \/ SerialNumber
  \/ \E i \in Instances : ToPublicKey(Buf(key(i)))

SpecValidity == Init /\ [][NextValidity]_vars

----------------------------------------------------------------------------
(* Properties *)

Issued == last.op = "authorize" /\ last.error = ""
IssuedCert == certificateFromPem(last.result.cert)

\* C1: authorize fails with 'Common name is required', generating no key
\* pair and returning nothing, for undefined, null, '' and [].
C1_MissingNameRejected ==
  (last.op = "authorize"
     /\ last.args.name \in {Undefined, Null, Str(<<>>), Arr(<<>>)})
  => /\ last.error = "Common name is required"
     /\ ~last.generated
     /\ last.result = NoResult

\* C2: whatever a caller does with the buffers key and ca returned, the
\* bytes a later read of key / ca yields stay the ones first read.
C2_AccessorsAreCopies ==
  [][\A i \in Instances :
       /\ heap'[cas[i].keyPair.privateKey] = heap[cas[i].keyPair.privateKey]
       /\ heap'[cas[i].pem] = heap[cas[i].pem]]_vars

\* C3: the issuer of an issued certificate is the subject of the issuing
\* CA's stored certificate, for created and for restored CAs.
C3_IssuerIsCaSubject ==
  Issued => IssuedCert.issuer = cas[last.this].cert.subject

\* the root a from call was given, and what of it is there
C4_FromRoot == last'.args
C4_CaAbsent == C4_FromRoot.ca = Undefined
C4_KeyAbsent == C4_FromRoot.keyPair = Undefined /\ C4_FromRoot.key = Undefined
C4_WellFormed ==
  /\ ~C4_CaAbsent
  /\ heap[C4_FromRoot.ca.ref].kind = "CERTIFICATE"
  /\ \/ C4_FromRoot.keyPair # Undefined
     \/ /\ C4_FromRoot.key # Undefined
        /\ heap[C4_FromRoot.key.ref].kind = "RSA PRIVATE KEY"

\* C4: from fails with 'Missing certificate' when root.ca is absent (the key
\* absent or not), with 'Missing key pair or private key' when root.ca is
\* there and neither keyPair nor key is; a failed from leaves no instance;
\* with a certificate and a key or a key pair it yields one.
C4_FromErrors ==
  [][(last'.op = "from" /\ last'.args # Null)
       => /\ C4_CaAbsent => last'.error = "Missing certificate"
          /\ (~C4_CaAbsent /\ C4_KeyAbsent)
               => last'.error = "Missing key pair or private key"
          /\ last'.error # "" => (cas' = cas /\ last'.this = 0)
          /\ C4_WellFormed
               => (last'.error = "" /\ Len(cas') = Len(cas) + 1
                     /\ last'.this = Len(cas'))]_vars

C4_Witness ==
  /\ last.op = "from"
  /\ last.args # Null
  /\ last.args.ca = Undefined
  /\ last.args.key = Undefined
  /\ last.args.keyPair = Undefined
  /\ last.error = "Missing certificate"
  /\ Len(cas) = 1

\* the last call restored a clone from cas[i]'s own key and ca
C5_IsCloneOf(i) ==
  /\ last.op = "from"
  /\ last.error = ""
  /\ i \in Instances \ {last.this}
  /\ last.args = Root(Buf(ca(i)), Buf(key(i)), Undefined, Undefined)

\* C5: a clone restored from {key: root.key, ca: root.ca} has key and ca
\* byte-equal to the root's, held in buffers of its own.
C5_RoundTrip ==
  \A i \in Instances :
    C5_IsCloneOf(i)
    => /\ heap[key(last.this)] = heap[key(i)]
       /\ heap[ca(last.this)] = heap[ca(i)]
       /\ key(last.this) # key(i)
       /\ ca(last.this) # ca(i)

\* the names an authorize call was given, as a sequence
C6_Names ==
  IF last.args.name.t = "string" THEN <<last.args.name.v>>
  ELSE last.args.name.v
C6_NonEmpty ==
  /\ last.op = "authorize"
  /\ last.args.name.t \in {"string", "array"}
  /\ Len(last.args.name.v) > 0
C6_DigitsAndDots(s) ==
  /\ Len(s) > 0
  /\ \A k \in 1..Len(s) :
       s[k] \in {"0", "1", "2", "3", "4", "5", "6", "7", "8", "9", "."}
C6_AltNames ==
  LET sans == {k \in 1..Len(IssuedCert.extensions) :
                 IssuedCert.extensions[k].name = "subjectAltName"}
  IN IssuedCert.extensions[CHOOSE k \in sans : TRUE].altNames

\* C6: for a non-empty name or list of names the commonName is the first
\* name and subjectAltName lists every name in order, as an IP entry when
\* the name is made of digits and dots only and as a DNS entry otherwise.
C6_CommonNameAndAltNames ==
  C6_NonEmpty
  => /\ last.error # "Common name is required"
     /\ Issued
          => /\ IssuedCert.subject
                  = <<[name |-> "commonName", value |-> Str(C6_Names[1])]>>
             /\ Cardinality({k \in 1..Len(IssuedCert.extensions) :
                   IssuedCert.extensions[k].name = "subjectAltName"}) = 1
             /\ Len(C6_AltNames) = Len(C6_Names)
             /\ \A k \in 1..Len(C6_Names) :
                  C6_AltNames[k] =
                    IF C6_DigitsAndDots(C6_Names[k])
                    THEN [type |-> 7, ip |-> C6_Names[k]]
                    ELSE [type |-> 2, value |-> C6_Names[k]]
C6_Witness ==
  /\ C6_NonEmpty
  /\ Issued
  /\ Len(C6_Names) >= 2
  /\ \E k \in 1..Len(C6_Names) : C6_DigitsAndDots(C6_Names[k])
  /\ \E k \in 1..Len(C6_Names) : ~C6_DigitsAndDots(C6_Names[k])

\* what a TLS peer checks of a certificate against a trust anchor: the
\* anchor is named as issuer, its key verifies the signature, and both are
\* within their validity
Validates(certBytes, anchorBytes) ==
  /\ CanParseCertificate(certBytes)
  /\ CanParseCertificate(anchorBytes)
  /\ LET cert == certificateFromPem(certBytes)
         anchor == certificateFromPem(anchorBytes)
     IN /\ cert.issuer = anchor.subject
        /\ cert.signedBy = anchor.publicKey
        /\ cert.validity.notBefore <= now /\ now <= cert.validity.notAfter
        /\ anchor.validity.notBefore <= now /\ now <= anchor.validity.notAfter

\* C7 as stated: a certificate issued by one instance validates against the
\* ca of no other instance, created or restored.
C7_NoCrossValidation ==
  Issued
  => \A j \in Instances \ {last.this} :
       ~Validates(last.result.cert, heap[ca(j)])

\* cas[j]'s certificate does not certify the key the issuing CA signs with
C7_OtherKey(j) ==
  \/ ~CanParseCertificate(heap[ca(j)])
  \/ ~CanParsePrivateKey(heap[key(last.this)])
  \/ certificateFromPem(heap[ca(j)]).publicKey
       # privateKeyFromPem(heap[key(last.this)])

\* C7 as amended: a certificate issued by A does not validate against B.ca
\* whenever B's certificate certifies another key than the one A signs with.
C7_NoCrossValidationOtherKey ==
  Issued
  => \A j \in Instances \ {last.this} :
       C7_OtherKey(j) => ~Validates(last.result.cert, heap[ca(j)])
C7_Witness ==
  /\ Issued
  /\ \E j \in Instances \ {last.this} :
       /\ C7_OtherKey(j)
       /\ CanParseCertificate(heap[ca(j)])
       /\ certificateFromPem(heap[ca(j)]).subject = IssuedCert.issuer

\* the certificate a creation or an issuance produced, and the options and
\* default it was called with
C8_Produced == last.op \in {"create", "authorize"} /\ last.error = ""
C8_Cert == IF last.op = "create" THEN cas[last.this].cert ELSE IssuedCert
C8_Opts == IF last.op = "create" THEN last.args ELSE last.args.opts
C8_Default == IF last.op = "create" THEN 365 * DAY ELSE 90 * DAY

\* C8: notBefore is the issuance time minus one day, notAfter the issuance
\* time plus the expiry option whenever one is supplied, plus 365 days
\* (root) or 90 days (leaf) otherwise.
C8_ValidityWindow ==
  C8_Produced
  => /\ C8_Cert.validity.notBefore = last.t1 - DAY
     /\ C8_Cert.validity.notAfter =
          last.t2 + (IF C8_Opts.expiry = Undefined THEN C8_Default
                     ELSE C8_Opts.expiry.v)

\* C9: every certificate produced has notBefore < notAfter.
C9_NotBeforeBeforeNotAfter ==
  C8_Produced => C8_Cert.validity.notBefore < C8_Cert.validity.notAfter

====
